---------------------------- MODULE Spec2Model ----------------------------
(***************************************************************************)
(* Model of src/src/parsers.ts (parseApacheDate, parseLine, analyzeLogs).  *)
(*                                                                         *)
(* Representation of the JavaScript values:                                *)
(*  - a log line is a record of what the regular expressions of           *)
(*    parsers.ts can see in it (see Line below);                           *)
(*  - a string that the code later splits on ":" (an address, a perMinute  *)
(*    key) is the sequence of its colon-free parts, so "fe80::1" is        *)
(*    <<"fe80", "", "1">> and "10.0.0.5" is <<"10.0.0.5">>;                 *)
(*  - an optional field (ip, status, ts, ua, line) is a sequence of        *)
(*    length 0 or 1;                                                       *)
(*  - a plain object used as Record<string, number> is the sequence of its *)
(*    own properties in insertion order, each [k, v], v a JavaScript value *)
(*    [t |-> typeof, v |-> number]; Object.entries lists them in that      *)
(*    order (no key of the model is a canonical array index);              *)
(*  - a timestamp is carried in seconds: every value parseApacheDate       *)
(*    returns is a whole number of seconds times 1000, and the epoch in    *)
(*    milliseconds does not fit the 32-bit integers of TLC.                *)
(***************************************************************************)
EXTENDS Integers, Sequences, FiniteSets, TLC

VARIABLES text, tzOffset, shards, pc, entries, anomalies

vars == <<text, tzOffset, shards, pc, entries, anomalies>>

-----------------------------------------------------------------------------
(* Generic helpers *)

Range(s) == {s[i] : i \in 1..Len(s)}

Repeat(x, n) == [i \in 1..n |-> x]

Max2(a, b) == IF a >= b THEN a ELSE b

-----------------------------------------------------------------------------
(* JavaScript values and plain objects *)

Num(n) == [t |-> "number", v |-> n]
Str == [t |-> "string", v |-> 0]
Fn == [t |-> "function", v |-> 0]
Obj == [t |-> "object", v |-> 0]
Undef == [t |-> "undefined", v |-> 0]
NaN == [t |-> "NaN", v |-> 0]

\* A property key.  An address "a:b" is Key(<<"a", "b">>); the perMinute key
\* `${ip}:${minuteBucket}` is MinuteKey(ip, minuteBucket).  Two keys are the
\* same string exactly when they are the same record, the minute bucket
\* being the part after the last colon.
Key(parts) == [parts |-> parts, min |-> <<>>]
MinuteKey(ip, minuteBucket) == [parts |-> ip, min |-> <<minuteBucket>>]

\* ToBoolean: undefined, NaN, 0 are falsy; functions, objects and the non-empty
\* strings the code can build ("function Object() { [native code] }1") are truthy.
Truthy(x) == IF x.t = "number" THEN x.v # 0 ELSE x.t \in {"string", "function", "object"}

\* x + 1: a number is incremented, anything else is concatenated with "1".
PlusOne(x) == IF x.t = "number" THEN Num(x.v + 1) ELSE Str

\* cnt >= n and cnt > n: a string that is no numeral converts to NaN, and
\* every comparison with NaN is false.
JsGe(x, n) == x.t = "number" /\ x.v >= n
JsGt(x, n) == x.t = "number" /\ x.v > n

\* Properties every object literal {} inherits from Object.prototype.
\* "constructor" stands for the inherited methods (toString, valueOf, ...),
\* "__proto__" for the accessor.
ProtoValue(k) ==
    IF k = Key(<<"constructor">>) THEN Fn
    ELSE IF k = Key(<<"__proto__">>) THEN Obj
    ELSE Undef

HasOwn(o, k) == \E i \in 1..Len(o) : o[i].k = k

\* o[k]
ObjGet(o, k) ==
    IF HasOwn(o, k)
    THEN o[CHOOSE i \in 1..Len(o) : o[i].k = k].v
    ELSE ProtoValue(k)

\* o[k] = v, v a primitive: the __proto__ setter ignores a primitive.
ObjSet(o, k, v) ==
    IF k = Key(<<"__proto__">>) THEN o
    ELSE IF HasOwn(o, k)
    THEN [i \in 1..Len(o) |-> IF o[i].k = k THEN [k |-> k, v |-> v] ELSE o[i]]
    ELSE Append(o, [k |-> k, v |-> v])

\* o[k] = (o[k] || 0) + 1
Incr(o, k) ==
    LET cur == ObjGet(o, k)
    IN ObjSet(o, k, PlusOne(IF Truthy(cur) THEN cur ELSE Num(0)))

-----------------------------------------------------------------------------
(* Strings: case folding and the token lists of the regular expressions *)

\* toLowerCase on the words the model uses.
Lower(w) ==
    CASE w = "Failed password" -> "failed password"
      [] w = "FAILED PASSWORD" -> "failed password"
      [] w = "Invalid user" -> "invalid user"
      [] w = "Failed login" -> "failed login"
      [] w = "Mozilla" -> "mozilla"
      [] w = "CURL" -> "curl"
      [] w = "Wget" -> "wget"
      [] w = "Postman" -> "postman"
      [] w = "Go-http-client" -> "go-http-client"
      [] OTHER -> w

SshPhrases ==
    {"failed password", "authentication failure", "invalid user", "login incorrect"}

UaStarts ==
    {"mozilla", "curl", "wget", "postman", "python-requests", "go-http-client", "sqlmap"}

ToolTokens ==
    {"curl", "wget", "postman", "python-requests", "go-http-client", "sqlmap"}

StatusSet == {403, 404, 500, 502, 503}

\* A date as the pattern of parseApacheDate sees it; ok = FALSE when the
\* bracket holds nothing of the form DD/Mon/YYYY:hh:mm:ss +zzzz.
Date(ok, DD, MMM, YYYY, hh, mm, ss, sign, tzh, tzm) ==
    [ok |-> ok, DD |-> DD, MMM |-> MMM, YYYY |-> YYYY, hh |-> hh, mm |-> mm,
     ss |-> ss, sign |-> sign, tzh |-> tzh, tzm |-> tzm]

NoDate == Date(FALSE, 1, "Jan", 1970, 0, 0, 0, 1, 0, 0)

\* A line of the log.  clf says whether the line has the layout of CLF_RE;
\* tok, date, method, path, status, ua are then the groups of the match.
\* ips are the IPv4-looking tokens of the line in order, phrases the
\* phrases of SSH_FAILED_RE and "failed login" it contains (as written),
\* spaced the 3-digit tokens between two white spaces in order, quoted the
\* double-quoted substrings in order (each a sequence of words).
Line(clf, tok, date, method, path, status, ua, ips, phrases, spaced, quoted) ==
    [clf |-> clf, tok |-> tok, date |-> date, method |-> method, path |-> path,
     status |-> status, ua |-> ua, ips |-> ips, phrases |-> phrases,
     spaced |-> spaced, quoted |-> quoted]

-----------------------------------------------------------------------------
(* parseApacheDate *)

MonthNo(MMM) ==
    CASE MMM = "Jan" -> 1 [] MMM = "Feb" -> 2 [] MMM = "Mar" -> 3
      [] MMM = "Apr" -> 4 [] MMM = "May" -> 5 [] MMM = "Jun" -> 6
      [] MMM = "Jul" -> 7 [] MMM = "Aug" -> 8 [] MMM = "Sep" -> 9
      [] MMM = "Oct" -> 10 [] MMM = "Nov" -> 11 [] MMM = "Dec" -> 12
      [] OTHER -> 0

\* Days from 1970-01-01 to the civil date y-m-d (proleptic Gregorian).
DaysFromCivil(y, m, d) ==
    LET yy == IF m <= 2 THEN y - 1 ELSE y
        era == yy \div 400
        yoe == yy - era * 400
        mp == (m + 9) % 12
        doy == (153 * mp + 2) \div 5 + d - 1
        doe == yoe * 365 + yoe \div 4 - yoe \div 100 + doy
    IN era * 146097 + doe - 719468

\* new Date(iso).getTime() / 1000 for the iso string built from the groups;
\* NaN when the string is no date (months[MMM] is undefined, a field is out
\* of range).
parseApacheDate(d) ==
    IF ~d.ok THEN Undef
    ELSE IF MonthNo(d.MMM) = 0 \/ d.DD \notin 1..31 \/ d.hh \notin 0..23
            \/ d.mm \notin 0..59 \/ d.ss \notin 0..59
            \/ d.tzh \notin 0..23 \/ d.tzm \notin 0..59
    THEN NaN
    ELSE Num(DaysFromCivil(d.YYYY, MonthNo(d.MMM), d.DD) * 86400
             + d.hh * 3600 + d.mm * 60 + d.ss
             - d.sign * (d.tzh * 3600 + d.tzm * 60))

-----------------------------------------------------------------------------
(* parseLine *)

\* line.match(CLF_RE)
CLF_RE(line) == line.clf

\* SSH_FAILED_RE.test(line), case-insensitive
SSH_FAILED_RE(line) == \E i \in 1..Len(line.phrases) : Lower(line.phrases[i]) \in SshPhrases

\* (line.match(IP_RE) || [null])[0]: the first IPv4-looking token
IP_RE(line) == IF line.ips = <<>> THEN <<>> ELSE <<Head(line.ips)>>

\* line.match(STATUS_RE): the first 3-digit token between white space
STATUS_RE(line) == IF line.spaced = <<>> THEN <<>> ELSE <<Head(line.spaced)>>

\* The first quoted substring that starts with a browser or tool name; the
\* match ua[0] keeps the quotes.
UA_RE(line) ==
    LET hits == {i \in 1..Len(line.quoted) :
                    line.quoted[i] # <<>> /\ Lower(line.quoted[i][1]) \in UaStarts}
    IN IF hits = {} THEN <<>>
       ELSE LET i == CHOOSE j \in hits : \A k \in hits : j <= k
            IN <<(<<"\"">> \o line.quoted[i] \o <<"\"">>)>>

NewEntry(line) ==
    [raw |-> line, ip |-> <<>>, status |-> <<>>, ts |-> <<>>, method |-> <<>>,
     path |-> <<>>, ua |-> <<>>, tags |-> <<>>]

parseLineGeneric(line) ==
    [NewEntry(line) EXCEPT !.ip = IP_RE(line), !.status = STATUS_RE(line),
                           !.ua = UA_RE(line)]

\* Mutant: the failure branch falls through to the generic extraction.
parseLineSshFallsThrough(line) ==
    [NewEntry(line) EXCEPT !.ip = IP_RE(line), !.tags = <<"failed_login">>,
                           !.status = STATUS_RE(line), !.ua = UA_RE(line)]

parseLineSsh(line) ==
    [NewEntry(line) EXCEPT !.ip = IP_RE(line), !.tags = <<"failed_login">>]

parseLineClf(line) ==
    LET ts == parseApacheDate(line.date)
    IN [NewEntry(line) EXCEPT !.ip = <<line.tok>>,
                              !.ts = IF Truthy(ts) THEN <<ts.v>> ELSE <<>>,
                              !.method = <<line.method>>,
                              !.path = <<line.path>>,
                              !.status = <<line.status>>,
                              !.ua = <<line.ua>>]

parseLine(line) ==
    IF CLF_RE(line) THEN parseLineClf(line)
    ELSE IF SSH_FAILED_RE(line) THEN parseLineSsh(line)
    ELSE parseLineGeneric(line)

-----------------------------------------------------------------------------
(* analyzeLogs *)

FailedLoginThreshold == 6
ErrorThreshold == 12
RateThreshold == 120
NightThreshold == 100
NightEndHour == 5
SecPerMinute == 60
SecPerHour == 3600
HoursPerDay == 24

\* The input text: segs is a sequence of runs, each the piece c (<<>> for
\* the empty string, <<line>> for a line) followed by the terminator eol
\* ("\n" or "\r\n"), n times over; tail is what follows the last terminator.
\* text.split(/\r?\n/) is then every piece in order, the tail included.
RECURSIVE SplitRuns(_, _)
SplitRuns(segs, i) ==
    IF i > Len(segs) THEN <<>>
    ELSE Repeat(segs[i].c, segs[i].n) \o SplitRuns(segs, i + 1)

\* Mutant: the piece after the last terminator is lost.
SplitLinesNoTail(t) == SplitRuns(t.segs, 1)

SplitLines(t) == SplitRuns(t.segs, 1) \o <<t.tail>>

\* .filter(Boolean): the empty string is the only falsy piece
FilterBoolean(pieces) ==
    LET kept == SelectSeq(pieces, LAMBDA p : p # <<>>)
    IN [i \in 1..Len(kept) |-> kept[i][1]]

Anomaly(type, n, ip, line) == [type |-> type, n |-> n, ip |-> ip, line |-> line]

\* /failed login/i.test(e.raw)
FailedLoginRe(raw) == \E i \in 1..Len(raw.phrases) : Lower(raw.phrases[i]) = "failed login"

\* new Date(e.ts).getHours() in a zone off minutes east of UTC
GetHours(ts, off) == ((ts + off * SecPerMinute) \div SecPerHour) % HoursPerDay

\* Mutant: the i flag is missing.
ToolReCaseSensitive(ua) == \E i \in 1..Len(ua) : ua[i] \in ToolTokens

\* /curl|wget|postman|python-requests|go-http-client|sqlmap/i.test(ua)
ToolRe(ua) == \E i \in 1..Len(ua) : Lower(ua[i]) \in ToolTokens

EmptyAgg ==
    [anomalies |-> <<>>, failedByIP |-> <<>>, errorsByIP |-> <<>>, uaSet |-> {},
     perMinute |-> <<>>, nightByIP |-> <<>>]

CountsFailed(e) == "failed_login" \in Range(e.tags) \/ FailedLoginRe(e.raw)

\* Mutant: every status counts as an error.
IsHttpErrorAnyStatus(e) == e.status # <<>>

IsHttpError(e) == e.status # <<>> /\ e.status[1] \in StatusSet

\* if (e.ua): an empty user agent is falsy
HasUa(e) == e.ua # <<>> /\ e.ua[1] # <<>>

\* if (e.ts && e.ip)
HasTsAndIp(e) == e.ts # <<>> /\ e.ts[1] # 0 /\ e.ip # <<>>

IsNight(e, off) == GetHours(e.ts[1], off) >= 0 /\ GetHours(e.ts[1], off) < NightEndHour

\* One iteration of the loop over the entries.
AggStep(st, e, off) ==
    LET ip == Key(IF e.ip # <<>> THEN e.ip[1] ELSE <<"unknown">>)
    IN [anomalies |->
            IF IsHttpError(e)
            THEN Append(st.anomalies, Anomaly("HTTP Error", e.status[1], ip.parts, <<e.raw>>))
            ELSE st.anomalies,
        failedByIP |-> IF CountsFailed(e) THEN Incr(st.failedByIP, ip) ELSE st.failedByIP,
        errorsByIP |-> IF IsHttpError(e) THEN Incr(st.errorsByIP, ip) ELSE st.errorsByIP,
        uaSet |-> IF HasUa(e) THEN st.uaSet \cup {e.ua[1]} ELSE st.uaSet,
        perMinute |->
            IF HasTsAndIp(e)
            THEN Incr(st.perMinute, MinuteKey(e.ip[1], e.ts[1] \div SecPerMinute))
            ELSE st.perMinute,
        nightByIP |->
            IF HasTsAndIp(e) /\ IsNight(e, off) THEN Incr(st.nightByIP, ip) ELSE st.nightByIP]

\* for (const e of entries): the entries lo..hi in order, from the state st
\* (the range is halved, and the left half evaluated before the right one
\* starts, so that the evaluation stays shallow)
RECURSIVE AggregateRange(_, _, _, _, _)
AggregateRange(es, lo, hi, st, off) ==
    IF lo > hi THEN st
    ELSE IF lo = hi THEN AggStep(st, es[lo], off)
    ELSE LET mid == (lo + hi) \div 2
             left == AggregateRange(es, lo, mid, st, off)
         IN IF left.uaSet = left.uaSet
            THEN AggregateRange(es, mid + 1, hi, left, off)
            ELSE left

Aggregate(es, off) == AggregateRange(es, 1, Len(es), EmptyAgg, off)

\* for (const [ip, cnt] of Object.entries(o)) if (cnt >= threshold) push
RECURSIVE RuleGe(_, _, _, _)
RuleGe(o, i, threshold, type) ==
    IF i > Len(o) THEN <<>>
    ELSE (IF JsGe(o[i].v, threshold)
          THEN <<Anomaly(type, o[i].v.v, o[i].k.parts, <<>>)>>
          ELSE <<>>) \o RuleGe(o, i + 1, threshold, type)

\* for (const [ip, max] of Object.entries(o)) if (max > threshold) push
RECURSIVE RuleGt(_, _, _, _)
RuleGt(o, i, threshold, type) ==
    IF i > Len(o) THEN <<>>
    ELSE (IF JsGt(o[i].v, threshold)
          THEN <<Anomaly(type, o[i].v.v, o[i].k.parts, <<>>)>>
          ELSE <<>>) \o RuleGt(o, i + 1, threshold, type)

\* Mutant: cnt > 6 in place of cnt >= 6.
BruteForceRuleGt(failedByIP) == RuleGt(failedByIP, 1, FailedLoginThreshold, "Brute Force")

BruteForceRule(failedByIP) == RuleGe(failedByIP, 1, FailedLoginThreshold, "Brute Force")

ErrorSpikeRule(errorsByIP) == RuleGe(errorsByIP, 1, ErrorThreshold, "Error Spike")

SuspiciousUaRule(uaSet) ==
    IF \E ua \in uaSet : ToolRe(ua)
    THEN <<Anomaly("Suspicious UA", 0, <<>>, <<>>)>>
    ELSE <<>>

\* const ip = key.split(":")[0];
\* if (!maxPerIP[ip] || count > maxPerIP[ip]) maxPerIP[ip] = count;
RECURSIVE MaxPerIP(_, _, _)
MaxPerIP(perMinute, i, maxPerIP) ==
    IF i > Len(perMinute) THEN maxPerIP
    ELSE LET ip == Key(<<perMinute[i].k.parts[1]>>)
             count == perMinute[i].v
             cur == ObjGet(maxPerIP, ip)
         IN MaxPerIP(perMinute, i + 1,
                     IF ~Truthy(cur) \/ (cur.t = "number" /\ count.v > cur.v)
                     THEN ObjSet(maxPerIP, ip, count)
                     ELSE maxPerIP)

RateSpikeRule(maxPerIP) == RuleGt(maxPerIP, 1, RateThreshold, "Rate Spike")

OffHoursRule(nightByIP) == RuleGe(nightByIP, 1, NightThreshold, "Off-hours Activity")

\* Mutant: the rate spikes are pushed before the user-agent anomaly.
PostRulesRateFirst(agg) ==
    BruteForceRule(agg.failedByIP)
    \o ErrorSpikeRule(agg.errorsByIP)
    \o RateSpikeRule(MaxPerIP(agg.perMinute, 1, <<>>))
    \o SuspiciousUaRule(agg.uaSet)
    \o OffHoursRule(agg.nightByIP)

PostRules(agg) ==
    BruteForceRule(agg.failedByIP)
    \o ErrorSpikeRule(agg.errorsByIP)
    \o SuspiciousUaRule(agg.uaSet)
    \o RateSpikeRule(MaxPerIP(agg.perMinute, 1, <<>>))
    \o OffHoursRule(agg.nightByIP)

\* lines.map(parseLine)
MapParseLine(lines) == [i \in 1..Len(lines) |-> parseLine(lines[i])]

\* Mutant: the loop over the entries stops one entry early.
analyzeLogsStopsEarly(t, off) ==
    LET lines == FilterBoolean(SplitLines(t))
        es == MapParseLine(lines)
        agg == AggregateRange(es, 1, Len(es) - 1, EmptyAgg, off)
    IN [entries |-> es, anomalies |-> agg.anomalies \o PostRules(agg)]

analyzeLogs(t, off) ==
    LET lines == FilterBoolean(SplitLines(t))
        es == MapParseLine(lines)
        agg == Aggregate(es, off)
    IN [entries |-> es, anomalies |-> agg.anomalies \o PostRules(agg)]

-----------------------------------------------------------------------------
(* Inputs *)

MaxSegs == 2

A1 == <<"10.0.0.5">>
A2 == <<"10.0.0.6">>
AV6 == <<"fe80", "", "1">>
APort == <<"10.0.0.5", "8080">>
ACtor == <<"constructor">>
AProto == <<"__proto__">>
AUnknown == <<"unknown">>

\* 10/Oct/2000:13:55:36 -0700 and :50 (same minute), 13:56:10 (the next),
\* 11/Oct/2000:02:10:00 +0000 and 02:10:30, 10/Foo/2000 (no month),
\* 01/Jan/1970:00:00:00 +0000 (the epoch)
D1 == Date(TRUE, 10, "Oct", 2000, 13, 55, 36, -1, 7, 0)
D1b == Date(TRUE, 10, "Oct", 2000, 13, 55, 50, -1, 7, 0)
D2 == Date(TRUE, 10, "Oct", 2000, 13, 56, 10, -1, 7, 0)
DN == Date(TRUE, 11, "Oct", 2000, 2, 10, 0, 1, 0, 0)
DNb == Date(TRUE, 11, "Oct", 2000, 2, 11, 30, 1, 0, 0)
DFoo == Date(TRUE, 10, "Foo", 2000, 13, 55, 36, -1, 7, 0)
DEpoch == Date(TRUE, 1, "Jan", 1970, 0, 0, 0, 1, 0, 0)

Moz == <<"Mozilla", "/5.0">>
Curl == <<"curl", "/7.68.0">>
CurlUp == <<"CURL">>
Opera == <<"Opera">>

\* tok - - [date] "GET path HTTP/1.1" status 512 "-" "ua"
Clf(tok, date, status, ua, phrases) ==
    Line(TRUE, tok, date, "GET", "/index.html", status, ua, <<>>, phrases, <<>>, <<>>)

\* any other line
Plain(ips, phrases, spaced, quoted) ==
    Line(FALSE, <<>>, NoDate, "", "", 0, <<>>, ips, phrases, spaced, quoted)

\* Jan  1 00:00:00 host sshd[1]: Failed password for root from 10.0.0.5 port 22 ssh2
Sshd(ip) == Plain(<<ip>>, <<"Failed password">>, <<>>, <<>>)

Runs(lines, reps, eols) == [c : lines, eol : eols, n : reps]

RECURSIVE SeqsUpTo(_, _)
SeqsUpTo(S, n) ==
    IF n = 0 THEN {<<>>}
    ELSE LET shorter == SeqsUpTo(S, n - 1)
         IN shorter \cup {Append(q, x) : q \in shorter, x \in S}

Texts(pieces, reps, eols, tails) ==
    [segs : SeqsUpTo(Runs(pieces, reps, eols), MaxSegs), tail : tails]

NoShards == [kind |-> "cut", k |-> 0]

InitOf(texts, offsets, shardings) ==
    /\ text \in texts
    /\ tzOffset \in offsets
    /\ shards \in shardings
    /\ pc = "start"
    /\ entries = <<>>
    /\ anomalies = <<>>

\* const r = analyzeLogs(logs)
Analyze ==
    /\ pc = "start"
    /\ LET r == analyzeLogs(text, tzOffset)
       IN /\ entries' = r.entries
          /\ anomalies' = r.anomalies
    /\ pc' = "done"
    /\ UNCHANGED <<text, tzOffset, shards>>

Next == Analyze

-----------------------------------------------------------------------------
(* Helpers of the properties *)

Done == pc = "done"

OfType(type) == SelectSeq(anomalies, LAMBDA a : a.type = type)

\* The non-empty lines of the text in order, by runs.
RECURSIVE LinesOfRuns(_)
LinesOfRuns(segs) ==
    IF segs = <<>> THEN <<>>
    ELSE (IF Head(segs).c = <<>> THEN <<>> ELSE [i \in 1..Head(segs).n |-> Head(segs).c[1]])
         \o LinesOfRuns(Tail(segs))

NonEmptyLines == LinesOfRuns(text.segs) \o (IF text.tail = <<>> THEN <<>> ELSE <<text.tail[1]>>)

ErrorStatuses == {403, 404, 500, 502, 503}

HasErrorStatus(e) == Len(e.status) = 1 /\ e.status[1] \in ErrorStatuses

\* The address key of an entry: its address, "unknown" without one.
KeyOf(e) == IF e.ip = <<>> THEN <<"unknown">> ELSE e.ip[1]

MentionsTool(e) ==
    /\ Len(e.ua) = 1
    /\ \E i \in 1..Len(e.ua[1]) :
          Lower(e.ua[1][i]) \in {"curl", "wget", "postman", "python-requests",
                                  "go-http-client", "sqlmap"}

-----------------------------------------------------------------------------
(* Mixed short logs: every kind of line, blank lines, both terminators *)

MixedLines ==
    {Clf(A1, D1, 404, Moz, <<>>),
     Clf(AV6, DFoo, 200, Curl, <<>>),
     Clf(ACtor, DEpoch, 500, <<>>, <<"Failed password">>),
     Sshd(A1),
     Plain(<<>>, <<>>, <<503>>, <<CurlUp>>),
     Plain(<<A2>>, <<"Failed login">>, <<200>>, <<Opera, Moz>>),
     Plain(<<A1>>, <<"Invalid user">>, <<404>>, <<Curl>>)}

MixedPieces == {<<>>} \cup {<<l>> : l \in MixedLines}

InitMixed ==
    InitOf(Texts(MixedPieces, {1, 2}, {"\n", "\r\n"}, {<<>>, <<Sshd(A1)>>}), {0}, {NoShards})

SpecMixed == InitMixed /\ [][Next]_vars

\* C1: analyzeLogs returns for every text, with one entry per non-empty line
\* of the text, in input order, each entry's raw being that line; the empty
\* string gives no entry and no anomaly.
C1_OneEntryPerNonEmptyLine ==
    Done =>
        /\ Len(entries) = Len(NonEmptyLines)
        /\ \A i \in 1..Len(entries) : entries[i].raw = NonEmptyLines[i]
        /\ (text.segs = <<>> /\ text.tail = <<>>) => (entries = <<>> /\ anomalies = <<>>)

C1_Witness ==
    /\ Done
    /\ \E i \in 1..Len(text.segs) : text.segs[i].c = <<>> /\ text.segs[i].eol = "\r\n"
    /\ \E i \in 1..Len(text.segs) : text.segs[i].c # <<>> /\ text.segs[i].n = 2
    /\ text.tail # <<>>
    /\ Len(entries) = 3

\* C4: every entry with a status in {403, 404, 500, 502, 503} gives exactly
\* one HTTP Error anomaly, citing that status and the entry's address key
\* and carrying the raw line; no other entry gives one, so the HTTP Error
\* anomalies are as many as those entries (and in their order).
C4_HttpErrorPerErrorEntry ==
    Done =>
        LET errs == SelectSeq(entries, HasErrorStatus)
            http == OfType("HTTP Error")
        IN /\ Len(http) = Len(errs)
           /\ \A i \in 1..Len(http) :
                 /\ http[i].n = errs[i].status[1]
                 /\ http[i].ip = KeyOf(errs[i])
                 /\ http[i].line = <<errs[i].raw>>

C4_Witness ==
    /\ Done
    /\ \E i \in 1..Len(entries) : HasErrorStatus(entries[i]) /\ entries[i].ip = <<>>
    /\ \E i \in 1..Len(entries) : entries[i].status = <<200>>
    /\ Len(OfType("HTTP Error")) = 2

\* C6: there is exactly one Suspicious UA anomaly when some entry's user
\* agent contains (in any case) one of the tool names, whatever the number
\* of such entries and of their addresses, and none otherwise.
C6_OneSuspiciousUa ==
    Done =>
        Len(OfType("Suspicious UA")) =
            (IF \E i \in 1..Len(entries) : MentionsTool(entries[i]) THEN 1 ELSE 0)

C6_Witness ==
    /\ Done
    /\ Len(OfType("Suspicious UA")) = 1
    /\ \E i, j \in 1..Len(entries) :
          /\ MentionsTool(entries[i]) /\ MentionsTool(entries[j])
          /\ entries[i].ip # entries[j].ip
          /\ entries[i].ua # entries[j].ua

-----------------------------------------------------------------------------
(* Failed logins *)

BruteLines ==
    {Sshd(A1),
     Plain(<<A2, A1>>, <<"FAILED PASSWORD">>, <<404>>, <<Curl>>),
     Plain(<<A2>>, <<"Failed password">>, <<>>, <<>>),
     Clf(A1, D1, 200, Moz, <<"Failed password">>),
     Plain(<<A1>>, <<"Failed login">>, <<>>, <<>>),
     Plain(<<>>, <<"Invalid user">>, <<>>, <<>>)}

BruteReps ==
    {1, FailedLoginThreshold - 1, FailedLoginThreshold, FailedLoginThreshold + 1}

InitBrute == InitOf(Texts({<<l>> : l \in BruteLines}, BruteReps, {"\n"}, {<<>>}), {0}, {NoShards})

SpecBrute == InitBrute /\ [][Next]_vars

SaysFailedPassword(l) == \E i \in 1..Len(l.phrases) : l.phrases[i] = "Failed password"

\* The address a line carries: the first token of a combined-format line,
\* the first IPv4-looking token of any other line.
Carried(l) == IF l.clf THEN <<l.tok>> ELSE IF l.ips = <<>> THEN <<>> ELSE <<l.ips[1]>>

LineKey(l) == IF Carried(l) = <<>> THEN <<"unknown">> ELSE Carried(l)[1]

\* An authentication-failure line: not of the combined format, with one of
\* the four phrases in any case.
IsAuthFailure(l) ==
    /\ ~l.clf
    /\ \E i \in 1..Len(l.phrases) :
          Lower(l.phrases[i]) \in {"failed password", "authentication failure",
                                    "invalid user", "login incorrect"}

\* A line the failed-login counter counts.
IsFailedLogin(l) ==
    IsAuthFailure(l) \/ \E i \in 1..Len(l.phrases) : Lower(l.phrases[i]) = "failed login"

CarriedAddresses == {Carried(l)[1] : l \in {x \in Range(NonEmptyLines) : Carried(x) # <<>>}}

LinesWhere(P(_)) == {i \in 1..Len(NonEmptyLines) : P(NonEmptyLines[i])}

BruteFor(a) == SelectSeq(anomalies, LAMBDA x : x.type = "Brute Force" /\ x.ip = a)

BruteForceAsClaimed(such(_, _)) ==
    \A a \in CarriedAddresses :
        LET suchLines == LinesWhere(LAMBDA l : such(l, a))
            counted == LinesWhere(LAMBDA l : IsFailedLogin(l) /\ LineKey(l) = a)
        IN /\ Cardinality(suchLines) >= 6 =>
                /\ Len(BruteFor(a)) = 1
                /\ BruteFor(a)[1].n >= 6
                /\ BruteFor(a)[1].n = Cardinality(counted)
           /\ (Cardinality(suchLines) <= 5 /\ counted \subseteq suchLines) =>
                Len(BruteFor(a)) = 0

\* C3 as stated: 6 or more lines that contain "Failed password" and carry
\* the address a give exactly one Brute Force anomaly for a, whose count is
\* the number of failed-login lines counted for a; 5 or fewer such lines and
\* no other failed-login line for a give none.
C3_AsStated ==
    Done => BruteForceAsClaimed(LAMBDA l, a : SaysFailedPassword(l) /\ Carried(l) = <<a>>)

\* C3 amended: the same, for the lines that contain "Failed password", are
\* not of the combined access-log format, and whose first IPv4-looking token
\* is a.
C3_BruteForceBoundary ==
    Done => BruteForceAsClaimed(LAMBDA l, a : SaysFailedPassword(l) /\ ~l.clf /\ Carried(l) = <<a>>)

C3_Witness ==
    /\ Done
    /\ \E a, b \in CarriedAddresses :
          /\ Cardinality(LinesWhere(LAMBDA l : SaysFailedPassword(l) /\ ~l.clf
                                                /\ Carried(l) = <<a>>)) = 6
          /\ Len(BruteFor(a)) = 1
          /\ Cardinality(LinesWhere(LAMBDA l : SaysFailedPassword(l) /\ ~l.clf
                                                /\ Carried(l) = <<b>>)) = 5
          /\ Cardinality(LinesWhere(LAMBDA l : IsFailedLogin(l) /\ LineKey(l) = b)) = 5
          /\ Len(BruteFor(b)) = 0

SevenSshdLines == [segs |-> <<[c |-> <<Sshd(A1)>>, eol |-> "\n", n |-> 7]>>, tail |-> <<>>]

\* C9: an authentication-failure line gives an entry with its raw text, its
\* first IPv4-looking token as address and the failed_login tag, and no
\* status, user agent, timestamp, method or path, whatever else the line
\* holds; a text of such lines alone gives Brute Force anomalies only, and
\* seven sshd "Failed password ... from 10.0.0.5" lines give the single
\* anomaly "7 failed logins from 10.0.0.5".
C9_AuthFailureEntriesOnlyBruteForce ==
    Done =>
        /\ \A i \in 1..Len(entries) :
              IsAuthFailure(NonEmptyLines[i]) =>
                  entries[i] = [raw |-> NonEmptyLines[i], ip |-> Carried(NonEmptyLines[i]),
                                status |-> <<>>, ts |-> <<>>, method |-> <<>>, path |-> <<>>,
                                ua |-> <<>>, tags |-> <<"failed_login">>]
        /\ (\A i \in 1..Len(NonEmptyLines) : IsAuthFailure(NonEmptyLines[i])) =>
              \A j \in 1..Len(anomalies) : anomalies[j].type = "Brute Force"
        /\ text = SevenSshdLines =>
              anomalies = <<[type |-> "Brute Force", n |-> 7, ip |-> <<"10.0.0.5">>, line |-> <<>>]>>

C9_Witness ==
    /\ Done
    /\ text = SevenSshdLines
    /\ Len(anomalies) = 1

C9_WitnessOtherFields ==
    /\ Done
    /\ \A i \in 1..Len(NonEmptyLines) : IsAuthFailure(NonEmptyLines[i])
    /\ \E i \in 1..Len(NonEmptyLines) : NonEmptyLines[i].spaced # <<>> /\ NonEmptyLines[i].quoted # <<>>
    /\ Len(anomalies) = 2

-----------------------------------------------------------------------------
(* Order of the anomalies *)

\* A combined-format request for "/failed login" by curl at night with
\* status 500: enough of them fire every rule.
AllRulesLine == Clf(A1, DN, 500, Curl, <<"Failed login">>)

OrderLines == {AllRulesLine, Clf(A2, DN, 404, Moz, <<>>), Sshd(A2)}

OrderReps == {1, FailedLoginThreshold, RateThreshold + 1}

InitOrder ==
    InitOf(Texts({<<l>> : l \in OrderLines}, OrderReps, {"\n"}, {<<>>, <<AllRulesLine>>}),
           {0}, {NoShards})

SpecOrder == InitOrder /\ [][Next]_vars

Rank(type) ==
    CASE type = "HTTP Error" -> 1
      [] type = "Brute Force" -> 2
      [] type = "Error Spike" -> 3
      [] type = "Suspicious UA" -> 4
      [] type = "Rate Spike" -> 5
      [] type = "Off-hours Activity" -> 6

Types == {anomalies[i].type : i \in 1..Len(anomalies)}

\* C2: the anomalies come grouped by type in the order HTTP Error, Brute
\* Force, Error Spike, Suspicious UA, Rate Spike, Off-hours Activity, none of
\* an earlier group after one of a later group, and the HTTP Error anomalies
\* in the order of the entries that caused them.
C2_AnomaliesGroupedInRuleOrder ==
    Done =>
        /\ \A i, j \in 1..Len(anomalies) :
              i < j => Rank(anomalies[i].type) <= Rank(anomalies[j].type)
        /\ LET http == OfType("HTTP Error")
               errs == SelectSeq(entries, HasErrorStatus)
           IN [i \in 1..Len(http) |-> http[i].line] = [i \in 1..Len(errs) |-> <<errs[i].raw>>]

C2_Witness ==
    /\ Done
    /\ Types = {"HTTP Error", "Brute Force", "Error Spike", "Suspicious UA", "Rate Spike",
                "Off-hours Activity"}
    /\ anomalies[1].ip = A2
    /\ anomalies[2].ip = A1

-----------------------------------------------------------------------------
(* HTTP errors *)

ErrLines ==
    {Clf(A1, D1, 500, Moz, <<>>), Clf(A1, D1, 200, Moz, <<>>), Clf(ACtor, D1, 500, Moz, <<>>),
     Clf(AProto, D1, 403, Moz, <<>>), Clf(AUnknown, D1, 404, Moz, <<>>),
     Plain(<<>>, <<>>, <<503>>, <<>>)}

ErrReps == {1, ErrorThreshold - 1, ErrorThreshold}

InitErr == InitOf(Texts({<<l>> : l \in ErrLines}, ErrReps, {"\n"}, {<<>>}), {0}, {NoShards})

SpecErr == InitErr /\ [][Next]_vars

EntriesWhere(P(_)) == {i \in 1..Len(entries) : P(entries[i])}

AnomaliesFor(type, a) == SelectSeq(anomalies, LAMBDA x : x.type = type /\ x.ip = a)

\* Names every object inherits from Object.prototype.
InheritedNames == {<<"constructor">>, <<"__proto__">>}

ErrorSpikeAsClaimed(keys) ==
    \A a \in keys :
        LET k == Cardinality(EntriesWhere(LAMBDA e : KeyOf(e) = a /\ HasErrorStatus(e)))
        IN /\ k = Len(AnomaliesFor("HTTP Error", a))
           /\ k >= 12 => /\ Len(AnomaliesFor("Error Spike", a)) = 1
                          /\ AnomaliesFor("Error Spike", a)[1].n = k
           /\ k <= 11 => Len(AnomaliesFor("Error Spike", a)) = 0

\* C5 as stated: for every address key a, exactly one Error Spike anomaly
\* for a, citing the count, when 12 or more entries keyed by a have a status
\* in {403, 404, 500, 502, 503} (as many as the HTTP Error anomalies for a),
\* and none when 11 or fewer have.
C5_AsStated == Done => ErrorSpikeAsClaimed({KeyOf(entries[i]) : i \in 1..Len(entries)})

\* The same for the keys that name no inherited property: holds.
C5_ForOwnKeys ==
    Done => ErrorSpikeAsClaimed({KeyOf(entries[i]) : i \in 1..Len(entries)} \ InheritedNames)

-----------------------------------------------------------------------------
(* Request rates *)

RateLines ==
    {Clf(A1, D1, 200, Moz, <<>>), Clf(A1, D1b, 200, Moz, <<>>), Clf(A1, D2, 200, Moz, <<>>),
     Clf(A2, D1, 200, Moz, <<>>), Clf(AV6, D1, 200, Moz, <<>>), Clf(APort, D1, 200, Moz, <<>>)}

RateReps == {1, RateThreshold \div 2, RateThreshold, RateThreshold + 1}

InitRate == InitOf(Texts({<<l>> : l \in RateLines}, RateReps, {"\n"}, {<<>>}), {0}, {NoShards})

SpecRate == InitRate /\ [][Next]_vars

Addresses == {entries[i].ip[1] : i \in EntriesWhere(LAMBDA e : e.ip # <<>>)}

\* The largest number of timestamped entries of a in one minute bucket.
Peak(a) ==
    LET mine == EntriesWhere(LAMBDA e : e.ip = <<a>> /\ e.ts # <<>>)
        inBucket(b) == Cardinality({i \in mine : entries[i].ts[1] \div 60 = b})
        sizes == {inBucket(entries[i].ts[1] \div 60) : i \in mine}
    IN IF mine = {} THEN 0 ELSE CHOOSE m \in sizes : \A n \in sizes : n <= m

RateSpikeAsClaimed(addrs) ==
    \A a \in addrs :
        /\ Peak(a) > 120 => /\ Len(AnomaliesFor("Rate Spike", a)) = 1
                             /\ AnomaliesFor("Rate Spike", a)[1].n = Peak(a)
        /\ Peak(a) <= 120 => Len(AnomaliesFor("Rate Spike", a)) = 0

\* C7 as stated: for every address a of the entries (the first token of a
\* combined-format line, whatever it is), exactly one Rate Spike anomaly
\* citing a and its peak when the largest number of a's timestamped entries
\* in one minute bucket exceeds 120, and none otherwise.
C7_AsStated == Done => RateSpikeAsClaimed(Addresses)

\* The same when no address of the text holds a colon, for the addresses
\* that name no inherited property: holds.
C7_WithoutColons ==
    (Done /\ \A a \in Addresses : Len(a) = 1) => RateSpikeAsClaimed(Addresses \ InheritedNames)

-----------------------------------------------------------------------------
(* Night-time activity *)

NightLines ==
    {Clf(A1, DN, 200, Moz, <<>>), Clf(A1, DNb, 200, Moz, <<>>), Clf(A1, D1, 200, Moz, <<>>),
     Clf(A1, DFoo, 200, Moz, <<>>), Clf(ACtor, DN, 200, Moz, <<>>),
     Plain(<<A1>>, <<>>, <<200>>, <<>>)}

NightReps == {1, NightThreshold - 1, NightThreshold}

\* Minutes east of UTC of the zone the code runs in.
Zones == {0, 420}

InitNight == InitOf(Texts({<<l>> : l \in NightLines}, NightReps, {"\n"}, {<<>>}), Zones, {NoShards})

SpecNight == InitNight /\ [][Next]_vars

LocalHour(e) == ((e.ts[1] + tzOffset * 60) \div 3600) % 24

NightCount(a) ==
    Cardinality(EntriesWhere(LAMBDA e : e.ip = <<a>> /\ e.ts # <<>> /\ LocalHour(e) \in 0..4))

OffHoursAsClaimed(addrs) ==
    \A a \in addrs :
        /\ NightCount(a) >= 100 => /\ Len(AnomaliesFor("Off-hours Activity", a)) = 1
                                    /\ AnomaliesFor("Off-hours Activity", a)[1].n = NightCount(a)
        /\ NightCount(a) <= 99 => Len(AnomaliesFor("Off-hours Activity", a)) = 0

\* C8 as stated: for every address a, exactly one Off-hours Activity anomaly
\* for a, citing the count, when 100 or more entries of a with a timestamp
\* have their local hour in [0,5), and none when 99 or fewer have; entries
\* without timestamp or address never count.
C8_AsStated == Done => OffHoursAsClaimed(Addresses \cup {<<"unknown">>})

\* The same for the addresses that name no inherited property: holds.
C8_ForOwnKeys == Done => OffHoursAsClaimed((Addresses \cup {<<"unknown">>}) \ InheritedNames)

-----------------------------------------------------------------------------
(* Sharded aggregation (section 5 of the specification): the entries are   *)
(* dealt to shards, each shard runs the loop of analyzeLogs on its own     *)
(* entries, the shard aggregates are merged and the post-rules evaluated.  *)

ShardLines == {AllRulesLine, Clf(A1, DNb, 500, Moz, <<>>)}

\* shards = [kind |-> "cut", k]: the first k entries go to shard 1, the
\* others to shard 2; [kind |-> "mod", k]: entry i goes to shard
\* ((i - 1) % k) + 1.
Shardings ==
    {[kind |-> "cut", k |-> RateThreshold \div 2], [kind |-> "mod", k |-> 2],
     [kind |-> "mod", k |-> 3]}

InitShard ==
    InitOf(Texts({<<l>> : l \in ShardLines}, OrderReps, {"\n"}, {<<>>}), {0}, Shardings)

SpecShard == InitShard /\ [][Next]_vars

ShardCount == IF shards.kind = "cut" THEN 2 ELSE shards.k

ShardOf(i) ==
    IF shards.kind = "cut" THEN (IF i <= shards.k THEN 1 ELSE 2) ELSE ((i - 1) % shards.k) + 1

\* The entries of shard s, in input order.
ShardEntries(es, s) ==
    LET mine == {i \in 1..Len(es) : ShardOf(i) = s}
        nth(j) == IF shards.kind = "cut"
                  THEN (IF s = 1 THEN j ELSE shards.k + j)
                  ELSE s + (j - 1) * shards.k
    IN [j \in 1..Cardinality(mine) |-> es[nth(j)]]

ShardAggregate(es, s) == Aggregate(ShardEntries(es, s), tzOffset)

\* Sum of two counters.
JsSum(x, y) == IF x.t = "number" /\ y.t = "number" THEN Num(x.v + y.v) ELSE Str

JsMax(x, y) == IF x.t = "number" /\ y.t = "number" THEN Num(Max2(x.v, y.v)) ELSE Str

RECURSIVE MergeInto(_, _, _, _)
MergeInto(o, other, i, how) ==
    IF i > Len(other) THEN o
    ELSE LET k == other[i].k
             merged == IF HasOwn(o, k)
                       THEN [j \in 1..Len(o) |->
                                IF o[j].k = k THEN [k |-> k, v |-> IF how = "sum" THEN JsSum(o[j].v, other[i].v)
                                                         ELSE JsMax(o[j].v, other[i].v)]
                                ELSE o[j]]
                       ELSE Append(o, other[i])
         IN MergeInto(merged, other, i + 1, how)

\* What a shard hands over: its counters, its user agents, its per-address
\* peaks and its per-(address, minute) counts.
ShardSummary(agg) ==
    [failedByIP |-> agg.failedByIP, errorsByIP |-> agg.errorsByIP, uaSet |-> agg.uaSet,
     nightByIP |-> agg.nightByIP, perMinute |-> agg.perMinute,
     maxPerIP |-> MaxPerIP(agg.perMinute, 1, <<>>)]

MergeSummaries(a, b) ==
    [failedByIP |-> MergeInto(a.failedByIP, b.failedByIP, 1, "sum"),
     errorsByIP |-> MergeInto(a.errorsByIP, b.errorsByIP, 1, "sum"),
     uaSet |-> a.uaSet \cup b.uaSet,
     nightByIP |-> MergeInto(a.nightByIP, b.nightByIP, 1, "sum"),
     perMinute |-> MergeInto(a.perMinute, b.perMinute, 1, "sum"),
     maxPerIP |-> MergeInto(a.maxPerIP, b.maxPerIP, 1, "max")]

RECURSIVE MergedUpTo(_, _)
MergedUpTo(es, s) ==
    IF s = 1 THEN ShardSummary(ShardAggregate(es, 1))
    ELSE MergeSummaries(MergedUpTo(es, s - 1), ShardSummary(ShardAggregate(es, s)))

\* The post-rules over the merged aggregates, the peaks merged by max.
ShardedPeaksByMax(es) ==
    LET m == MergedUpTo(es, ShardCount)
    IN BruteForceRule(m.failedByIP) \o ErrorSpikeRule(m.errorsByIP)
       \o SuspiciousUaRule(m.uaSet) \o RateSpikeRule(m.maxPerIP) \o OffHoursRule(m.nightByIP)

\* The same, the per-(address, minute) counts merged by sum and the peaks
\* taken from the merged counts.
ShardedBucketsBySum(es) ==
    LET m == MergedUpTo(es, ShardCount)
    IN BruteForceRule(m.failedByIP) \o ErrorSpikeRule(m.errorsByIP)
       \o SuspiciousUaRule(m.uaSet) \o RateSpikeRule(MaxPerIP(m.perMinute, 1, <<>>))
       \o OffHoursRule(m.nightByIP)

OnePassPostAnomalies == Range(SelectSeq(anomalies, LAMBDA a : a.type # "HTTP Error"))

\* C10 as stated: merging the shard aggregates by sum for the failed-login,
\* error and night counts, max for the per-address per-minute peak and union
\* for the user agents, then evaluating the five rules, gives the post-rule
\* anomalies of the single pass of analyzeLogs.
C10_AsStated == Done => Range(ShardedPeaksByMax(entries)) = OnePassPostAnomalies

\* C10 amended: it does when the per-(address, minute) bucket counts are
\* merged by sum and the per-address peak is taken over the merged buckets.
C10_ShardedBucketsBySumAgree == Done => Range(ShardedBucketsBySum(entries)) = OnePassPostAnomalies

C10_Witness ==
    /\ Done
    /\ \A s \in 1..ShardCount : Len(ShardEntries(entries, s)) > 0
    /\ \A s \in 1..ShardCount :
          \A i \in 1..Len(ShardSummary(ShardAggregate(entries, s)).maxPerIP) :
              ShardSummary(ShardAggregate(entries, s)).maxPerIP[i].v.v <= RateThreshold
    /\ {a.type : a \in OnePassPostAnomalies} =
          {"Brute Force", "Error Spike", "Suspicious UA", "Rate Spike", "Off-hours Activity"}

=============================================================================
